---- MODULE Spec2Model ----
(***************************************************************************)
(* Model of coder/start-workspace-action: the composite action's three     *)
(* steps (action.yml), the entry point main() with its error handler       *)
(* (index.ts), StartWorkspaceAction.execute() (action.ts) and the          *)
(* CoderClient calls it makes (coder.ts).                                  *)
(*                                                                         *)
(* Strings built by template literals are sequences of tokens: the literal *)
(* parts and the interpolated values, in order.  Every external call is    *)
(* one action whose outcome is chosen by the environment; calls records    *)
(* the calls execute() made and logs what it gave its logger.  Spec is a   *)
(* run of the whole action, SpecExecute a call of execute() on its own,    *)
(* SpecLegacy the methods of the class that runs the coder command.        *)
(***************************************************************************)
EXTENDS Integers, Sequences, FiniteSets, TLC

VARIABLES wf, env, input, pc, coderUsername, workspaceUrl, commentBody,
          parameters, comment, calls, workspaces, error, githubEnv,
          exitCode, cancelled, outputs, failureStep, users, logs,
          legacyGithubUsername, output, legacyUsername, legacyPc, execCalls

vars == <<wf, env, input, pc, coderUsername, workspaceUrl, commentBody,
          parameters, comment, calls, workspaces, error, githubEnv,
          exitCode, cancelled, outputs, failureStep, users, logs,
          legacyGithubUsername, output, legacyUsername, legacyPc, execCalls>>

\* The state of the CLI transport's object, which a run of the direct-API
\* action leaves alone.
legacyVars == <<legacyGithubUsername, output, legacyUsername, legacyPc, execCalls>>

(***************************************************************************)
(* Bounds of the model.                                                    *)
(***************************************************************************)
\* The largest number of Coder users the user search returns.
MaxMatches == 4

(***************************************************************************)
(* Values.                                                                 *)
(***************************************************************************)
\* JavaScript's undefined (an absent environment variable, an unset field).
Undef == "<undefined>"

\* The usernames the Coder user search can return, in the order returned.
UserPool == <<"hugo", "alice", "bob", "charlie", "dave", "erin">>

\* The status comment's id, as the initial step outputs it.
StatusCommentId == 123

CoderUrl == "https://example.com"
WorkspaceName == "workspace-name"
TemplateName == "ubuntu"
RunUrl == "https://github.com/workflow-run"

\* What an environment variable of a username can hold: absent, empty (an
\* omitted action input is passed as the empty string), or a name.
GithubUsernameEnvValues == {Undef, "", "github-user"}
CoderUsernameEnvValues == {Undef, "", "hugo-coder"}

\* Parameter blobs: each is the YAML text, line by line (key and raw value),
\* or text that is not YAML at all.
ValidBlob == <<[key |-> "key", raw |-> "value"], [key |-> "key2", raw |-> "value2"]>>
NumberBlob == <<[key |-> "key", raw |-> "value"], [key |-> "count", raw |-> "1"]>>
InvalidBlob == <<[key |-> "key", raw |-> "[unclosed"]>>
EmptyBlob == <<>>
BooleanBlob == <<[key |-> "key", raw |-> "value"], [key |-> "enabled", raw |-> "true"]>>
NullBlob == <<[key |-> "region", raw |-> "~"]>>
NestedBlob == <<[key |-> "key", raw |-> "value"], [key |-> "resources", raw |-> "{cpu: 2}"]>>
QuotedBlob == <<[key |-> "count", raw |-> "\"42\""]>>
ParameterBlobs == {ValidBlob, NumberBlob, InvalidBlob, EmptyBlob,
                   BooleanBlob, NullBlob, NestedBlob, QuotedBlob}

NoError == [kind |-> "none", message |-> <<>>]

\* The body the initial step gives the comment.
InitialBody == <<"(U+1F504) Starting a Coder workspace. You can track the progress [here](", RunUrl, ").">>

\* The mark execute() puts before its terminal text (the bytes of the source).
SuccessMarker == "(U+00E2)(U+0153)(U+2026)"
FailureMarker == "(U+274C) "

(***************************************************************************)
(* JavaScript helpers.                                                     *)
(***************************************************************************)
\* !v for a string or undefined.
Falsy(v) == v = Undef \/ v = ""

\* v ?? d
Nullish(v, d) == IF v = Undef THEN d ELSE v

(***************************************************************************)
(* Input validation at the boundary (ActionInputSchema).                   *)
(***************************************************************************)
\* z.string().min(1).optional(): undefined passes, a string needs a character.
OptionalNonEmptyOk(v) == v = Undef \/ v # ""

\* ActionInputSchema.parse succeeds: the two usernames are optional non-empty
\* strings, the parameter blob a non-empty one (the empty blob stands for an
\* empty or absent variable); the other variables are the fixed values above.
ActionInputSchemaOk(e) ==
    /\ OptionalNonEmptyOk(e.GITHUB_USERNAME)
    /\ OptionalNonEmptyOk(e.CODER_USERNAME)
    /\ Len(e.WORKSPACE_PARAMETERS) >= 1

\* The ActionInput the schema yields for an accepted environment.
ActionInputOf(e) ==
    [githubUsername |-> e.GITHUB_USERNAME,
     coderUsername |-> e.CODER_USERNAME,
     coderUrl |-> CoderUrl,
     workspaceName |-> WorkspaceName,
     githubStatusCommentId |-> outputs.comment_id,
     githubWorkflowRunUrl |-> RunUrl,
     templateName |-> TemplateName,
     workspaceParameters |-> e.WORKSPACE_PARAMETERS]

NoInput ==
    [githubUsername |-> Undef, coderUsername |-> Undef, coderUrl |-> CoderUrl,
     workspaceName |-> WorkspaceName, githubStatusCommentId |-> 0,
     githubWorkflowRunUrl |-> RunUrl, templateName |-> TemplateName,
     workspaceParameters |-> <<>>]

(***************************************************************************)
(* parseParameters: yaml.parse, then z.record(z.string(), z.string()).     *)
(***************************************************************************)
\* The type yaml.parse gives a value: a plain scalar is typed by its text, a
\* quoted scalar is a string, a flow collection is a nested structure.
YamlScalarType(raw) ==
    IF raw \in {"0", "1", "42"} THEN "number"
    ELSE IF raw \in {"true", "false"} THEN "boolean"
    ELSE IF raw \in {"", "null", "~"} THEN "null"
    ELSE IF raw \in {"[unclosed"} THEN "syntax-error"
    ELSE IF raw \in {"{cpu: 2}"} THEN "map"
    ELSE "string"

\* The text of the string yaml.parse decodes: a quoted scalar loses its
\* quotes, a plain one is taken as it is written.
YamlValue(raw) ==
    IF raw = "\"42\"" THEN "42"
    ELSE IF raw = "\"true\"" THEN "true"
    ELSE raw

\* yaml.parse throws on text that is not YAML.
YamlParseOk(blob) == \A i \in 1..Len(blob) : YamlScalarType(blob[i].raw) # "syntax-error"

\* WorkspaceParametersSchema with coercion (z.coerce.string()): a number or a
\* boolean is accepted and turned into its text.
WorkspaceParametersSchemaOk_coerces(blob) ==
    \A i \in 1..Len(blob) : YamlScalarType(blob[i].raw) \in {"string", "number", "boolean"}

\* WorkspaceParametersSchema accepts the document iff every value is a string.
WorkspaceParametersSchemaOk(blob) == \A i \in 1..Len(blob) : YamlScalarType(blob[i].raw) = "string"

\* The kind of error parseParameters throws, "none" when it returns.
parseParametersError(blob) ==
    IF ~YamlParseOk(blob) THEN "YAMLParseError"
    ELSE IF ~WorkspaceParametersSchemaOk(blob) THEN "ZodError"
    ELSE "none"

\* The mapping parseParameters returns, as the set of its entries.
parseParameters(blob) == {[name |-> blob[i].key, value |-> YamlValue(blob[i].raw)] : i \in 1..Len(blob)}

(***************************************************************************)
(* Strings execute() builds.                                               *)
(***************************************************************************)
\* createWorkspaceUrl with the two path segments in the wrong order.
createWorkspaceUrl_swapsSegments(coderUrl, username, workspaceName) ==
    <<coderUrl, "/", workspaceName, "/", username>>

createWorkspaceUrl(coderUrl, username, workspaceName) ==
    <<coderUrl, "/", username, "/", workspaceName>>

\* PreUpdateBody that keeps nothing of the body it was given.
PreUpdateBody_replaces(body, url) == <<"Workspace will be available here: ">> \o url

\* The line execute() appends to the comment before provisioning.
PreUpdateBody(body, url) == body \o <<"\nWorkspace will be available here: ">> \o url

\* The terminal comment of a successful run.
PostUpdateBody(url, runUrl) ==
    <<SuccessMarker, " Workspace started: ">> \o url \o <<"\nView [Github Actions logs](", runUrl, ").">>

\* The tokens that begin with a line break.
LineBreaks == {"\n", "\nWorkspace will be available here: ", "\nView [Github Actions logs](",
               "\nFailed to list Coder users by GitHub ID, status code: "}

\* The line main's error handler appends to the file GITHUB_ENV names.
EnvFileLine(message) == <<"ERROR_MSG=">> \o message \o <<"\n">>

RECURSIVE UpToLineBreak(_)
UpToLineBreak(tokens) ==
    IF Len(tokens) = 0 \/ Head(tokens) \in LineBreaks THEN <<>>
    ELSE <<Head(tokens)>> \o UpToLineBreak(Tail(tokens))

\* The value a later step finds in ERROR_MSG: what follows the name and the
\* equals sign on that line.
EnvFileValue(line) == UpToLineBreak(Tail(line))

\* The body the failure step writes.
FailureBody(errorMsgSet, errorMsg, runUrl) ==
    <<FailureMarker>> \o
    (IF ~errorMsgSet
     THEN <<"Failed to start the workspace. Please check the [action logs](", runUrl, ") for details.">>
     ELSE errorMsg)

\* users.slice(0, 3).join(", ")
RECURSIVE JoinComma(_)
JoinComma(names) ==
    IF Len(names) = 0 THEN <<>>
    ELSE IF Len(names) = 1 THEN <<names[1]>>
    ELSE <<names[1], ", ">> \o JoinComma(Tail(names))

\* users.slice(0, 3) without the cut: every name is kept.
Slice3_takesAll(matched) == matched

Slice3(matched) == SubSeq(matched, 1, IF Len(matched) < 3 THEN Len(matched) ELSE 3)

\* NoMatchMessage as the table-parsing resolver words it: without the link.
NoMatchMessage_withoutLink(githubUsername, coderUrl) ==
    <<"No Coder username mapping found for GitHub user @", githubUsername>>

NoMatchMessage(githubUsername, coderUrl) ==
    <<"No matching Coder user found for GitHub user @", githubUsername,
      ". Please connect your GitHub account with Coder: ", coderUrl, "/settings/external-auth">>

\* MultipleMatchMessage that ends with the link of NoMatchMessage.
MultipleMatchMessage_withLink(githubUsername, matched) ==
    <<"Multiple Coder users found for GitHub user ", githubUsername, ": ">>
    \o JoinComma(Slice3(matched))
    \o (IF Len(matched) > 3 THEN <<", and others">> ELSE <<>>)
    \o <<". Please connect your GitHub account with Coder: ", CoderUrl, "/settings/external-auth">>

MultipleMatchMessage(githubUsername, matched) ==
    <<"Multiple Coder users found for GitHub user ", githubUsername, ": ">>
    \o JoinComma(Slice3(matched))
    \o (IF Len(matched) > 3 THEN <<", and others">> ELSE <<>>)
    \o <<". Please connect other users to other GitHub accounts and try again.">>

(***************************************************************************)
(* Initial state: the workflow is about to run the action's first step.    *)
(***************************************************************************)
Init ==
    /\ wf = "InitialComment"
    /\ env \in [GITHUB_USERNAME : GithubUsernameEnvValues,
                CODER_USERNAME : CoderUsernameEnvValues,
                WORKSPACE_PARAMETERS : ParameterBlobs,
                GITHUB_ENV : {Undef, "/runner/_temp/set_env"}]
    /\ input = NoInput
    /\ pc = "notStarted"
    /\ coderUsername = ""
    /\ workspaceUrl = <<>>
    /\ commentBody = <<>>
    /\ parameters = {}
    /\ comment = [exists |-> FALSE, id |-> 0, body |-> <<>>]
    /\ calls = <<>>
    /\ workspaces = <<>>
    /\ error = NoError
    /\ githubEnv = [set |-> FALSE, ERROR_MSG |-> <<>>]
    /\ exitCode = -1
    /\ cancelled = FALSE
    /\ outputs = [comment_id |-> 0]
    /\ failureStep = "notRun"
    /\ users = <<>>
    /\ logs = <<>>
    /\ legacyGithubUsername = Undef
    /\ output = <<>>
    /\ legacyUsername = <<>>
    /\ legacyPc = "idle"
    /\ execCalls = <<>>

\* One external call, as the run made it: a write with the body it sent, a
\* read with the body it returned.
Call(op, commentId, body, outcome) ==
    [op |-> op, commentId |-> commentId, body |-> body, outcome |-> outcome]

\* One message given to logger.log.
LogEntry(message) == [level |-> "log", message |-> message]

\* execute() rejects with an error of this kind and message.
Throw(kind, message) ==
    /\ error' = [kind |-> kind, message |-> message]
    /\ pc' = "thrown"

(***************************************************************************)
(* action.yml, step "Initial comment".                                     *)
(***************************************************************************)
InitialComment ==
    /\ wf = "InitialComment"
    /\ \E outcome \in {"created", "noIssueNumber", "createFailed"} :
        IF outcome = "created"
        THEN /\ comment' = [exists |-> TRUE, id |-> StatusCommentId, body |-> InitialBody]
             /\ outputs' = [comment_id |-> StatusCommentId]
             /\ wf' = "StartWorkspace"
        ELSE /\ wf' = "CommentFailure"
             /\ UNCHANGED <<comment, outputs>>
    /\ UNCHANGED <<env, input, pc, coderUsername, workspaceUrl, commentBody,
                   parameters, calls, workspaces, error, githubEnv, exitCode,
                   cancelled, failureStep,
                   users, logs>>
    /\ UNCHANGED legacyVars

(***************************************************************************)
(* index.ts: main() up to the call of execute().                           *)
(***************************************************************************)
main ==
    /\ wf = "StartWorkspace"
    /\ pc = "notStarted"
    /\ error = NoError
    /\ IF ActionInputSchemaOk(env)
       THEN /\ input' = ActionInputOf(env)
            /\ pc' = "execute"
            /\ UNCHANGED error
       ELSE /\ error' = [kind |-> "ZodError", message |-> <<"Invalid input">>]
            /\ UNCHANGED <<input, pc>>
    /\ UNCHANGED <<wf, env, coderUsername, workspaceUrl, commentBody, parameters,
                   comment, calls, workspaces, githubEnv, exitCode, cancelled,
                   outputs, failureStep,
                   users, logs>>
    /\ UNCHANGED legacyVars

(***************************************************************************)
(* action.ts: StartWorkspaceAction.execute(), one action per step between  *)
(* two awaits.                                                             *)
(***************************************************************************)
\* execute_validate without the check that refuses both usernames.
execute_validate_acceptsBoth ==
    /\ wf = "StartWorkspace"
    /\ pc = "execute"
    /\ IF Falsy(input.githubUsername) /\ Falsy(input.coderUsername)
       THEN Throw("Error", <<"GitHub username or Coder username is required">>)
       ELSE /\ pc' = "parseParameters"
            /\ UNCHANGED error
    /\ UNCHANGED <<wf, env, input, coderUsername, workspaceUrl, commentBody,
                   parameters, comment, calls, workspaces, githubEnv, exitCode,
                   cancelled, outputs, failureStep, users, logs>>
    /\ UNCHANGED legacyVars

\* Lines 561-568: exactly one of the two usernames must be set.
execute_validate ==
    /\ wf = "StartWorkspace"
    /\ pc = "execute"
    /\ IF Falsy(input.githubUsername) /\ Falsy(input.coderUsername)
       THEN Throw("Error", <<"GitHub username or Coder username is required">>)
       ELSE IF ~Falsy(input.githubUsername) /\ ~Falsy(input.coderUsername)
       THEN Throw("Error", <<"Only one of GitHub username or Coder username may be set">>)
       ELSE /\ pc' = "parseParameters"
            /\ UNCHANGED error
    /\ UNCHANGED <<wf, env, input, coderUsername, workspaceUrl, commentBody,
                   parameters, comment, calls, workspaces, githubEnv, exitCode,
                   cancelled, outputs, failureStep,
                   users, logs>>
    /\ UNCHANGED legacyVars

\* execute_parseParameters that ignores the Coder username given and always
\* resolves the identity.
execute_parseParameters_alwaysResolves ==
    /\ wf = "StartWorkspace"
    /\ pc = "parseParameters"
    /\ IF parseParametersError(input.workspaceParameters) # "none"
       THEN /\ Throw(parseParametersError(input.workspaceParameters), <<"Invalid parameters">>)
            /\ UNCHANGED <<parameters, coderUsername, logs>>
       ELSE /\ parameters' = parseParameters(input.workspaceParameters)
            /\ coderUsername' = ""
            /\ logs' = Append(logs, LogEntry(<<"Getting Coder username for GitHub user ", input.githubUsername>>))
            /\ pc' = "githubGetUserIdFromUsername"
            /\ UNCHANGED error
    /\ UNCHANGED <<wf, env, input, workspaceUrl, commentBody, comment, calls,
                   workspaces, githubEnv, exitCode, cancelled, outputs,
                   failureStep, users>>
    /\ UNCHANGED legacyVars

\* execute_parseParameters that puts off the parsing: a blob that does not
\* parse is found out only when the workspace is created.
execute_parseParameters_parsesLate ==
    /\ wf = "StartWorkspace"
    /\ pc = "parseParameters"
    /\ parameters' = IF parseParametersError(input.workspaceParameters) # "none"
                     THEN {}
                     ELSE parseParameters(input.workspaceParameters)
    /\ coderUsername' = Nullish(input.coderUsername, "")
    /\ IF coderUsername' = "" /\ Falsy(input.githubUsername)
       THEN /\ Throw("AssertionError", <<"GitHub username is required">>)
            /\ UNCHANGED <<workspaceUrl, logs>>
       ELSE IF coderUsername' = ""
       THEN /\ logs' = Append(logs, LogEntry(<<"Getting Coder username for GitHub user ", input.githubUsername>>))
            /\ pc' = "githubGetUserIdFromUsername"
            /\ UNCHANGED <<workspaceUrl, error>>
       ELSE /\ pc' = "githubGetIssueCommentBody"
            /\ workspaceUrl' = createWorkspaceUrl(input.coderUrl, coderUsername', input.workspaceName)
            /\ logs' = logs \o <<LogEntry(<<"Using Coder username ", input.coderUsername>>),
                                  LogEntry(<<"Workspace URL: ">> \o workspaceUrl')>>
            /\ UNCHANGED error
    /\ UNCHANGED <<wf, env, input, commentBody, comment, calls, workspaces,
                   githubEnv, exitCode, cancelled, outputs, failureStep,
                   users>>
    /\ UNCHANGED legacyVars

\* Lines 569-593: the parameters are parsed, then the identity is either the
\* Coder username given, or to be resolved from the GitHub username.
execute_parseParameters ==
    /\ wf = "StartWorkspace"
    /\ pc = "parseParameters"
    /\ IF parseParametersError(input.workspaceParameters) # "none"
       THEN /\ Throw(parseParametersError(input.workspaceParameters), <<"Invalid parameters">>)
            /\ UNCHANGED <<parameters, coderUsername, workspaceUrl, logs>>
       ELSE /\ parameters' = parseParameters(input.workspaceParameters)
            /\ coderUsername' = Nullish(input.coderUsername, "")
            /\ IF coderUsername' = "" /\ Falsy(input.githubUsername)
               THEN /\ Throw("AssertionError", <<"GitHub username is required">>)
                    /\ UNCHANGED <<workspaceUrl, logs>>
               ELSE IF coderUsername' = ""
               THEN /\ logs' = Append(logs, LogEntry(<<"Getting Coder username for GitHub user ", input.githubUsername>>))
                    /\ pc' = "githubGetUserIdFromUsername"
                    /\ UNCHANGED <<workspaceUrl, error>>
               ELSE /\ pc' = "githubGetIssueCommentBody"
                    /\ workspaceUrl' = createWorkspaceUrl(input.coderUrl, coderUsername', input.workspaceName)
                    /\ logs' = logs \o <<LogEntry(<<"Using Coder username ", input.coderUsername>>),
                                          LogEntry(<<"Workspace URL: ">> \o workspaceUrl')>>
                    /\ UNCHANGED error
    /\ UNCHANGED <<wf, env, input, commentBody, comment, calls, workspaces,
                   githubEnv, exitCode, cancelled, outputs, failureStep,
                   users>>
    /\ UNCHANGED legacyVars

\* Lines 578-580 and 524-529: the GitHub user id of the GitHub username.
githubGetUserIdFromUsername ==
    /\ wf = "StartWorkspace"
    /\ pc = "githubGetUserIdFromUsername"
    /\ \E ok \in BOOLEAN :
        IF ok
        THEN /\ calls' = Append(calls, Call("github.users.getByUsername", 0, <<>>, "ok"))
             /\ pc' = "coderUsernameByGitHubId"
             /\ UNCHANGED error
        ELSE /\ calls' = Append(calls, Call("github.users.getByUsername", 0, <<>>, "threw"))
             /\ Throw("HttpError", <<"Not Found">>)
    /\ UNCHANGED <<wf, env, input, coderUsername, workspaceUrl, commentBody,
                   parameters, comment, workspaces, githubEnv, exitCode,
                   cancelled, outputs, failureStep,
                   users, logs>>
    /\ UNCHANGED legacyVars

\* coderUsernameByGitHubId that takes the first of several matches, as the
\* table-parsing resolver does.
coderUsernameByGitHubId_picksFirst ==
    /\ wf = "StartWorkspace"
    /\ pc = "coderUsernameByGitHubId"
    /\ \E n \in 0..MaxMatches :
        /\ calls' = Append(calls, Call("coder.getCoderUsersByGitHubId", 0, <<>>, "ok"))
        /\ users' = SubSeq(UserPool, 1, n)
        /\ IF Len(users') = 0
           THEN /\ Throw("UserFacingError", NoMatchMessage(input.githubUsername, input.coderUrl))
                /\ UNCHANGED <<coderUsername, workspaceUrl, logs>>
           ELSE /\ coderUsername' = users'[1]
                /\ workspaceUrl' = createWorkspaceUrl(input.coderUrl, users'[1], input.workspaceName)
                /\ logs' = logs \o <<LogEntry(<<"Coder username for GitHub user ", input.githubUsername, " is ", users'[1]>>),
                                      LogEntry(<<"Workspace URL: ">> \o workspaceUrl')>>
                /\ pc' = "githubGetIssueCommentBody"
                /\ UNCHANGED error
    /\ UNCHANGED <<wf, env, input, commentBody, parameters, comment, workspaces,
                   githubEnv, exitCode, cancelled, outputs, failureStep>>
    /\ UNCHANGED legacyVars

\* Lines 581-593, 465-488 and 762-790: the Coder users linked to that GitHub
\* id; exactly one must match.
coderUsernameByGitHubId ==
    /\ wf = "StartWorkspace"
    /\ pc = "coderUsernameByGitHubId"
    /\ \/ /\ calls' = Append(calls, Call("coder.getCoderUsersByGitHubId", 0, <<>>, "threw"))
          /\ Throw("Error", <<"\nFailed to list Coder users by GitHub ID, status code: ", "500", ", body: ", "error">>)
          /\ UNCHANGED <<coderUsername, workspaceUrl, users, logs>>
       \/ \E n \in 0..MaxMatches :
            /\ calls' = Append(calls, Call("coder.getCoderUsersByGitHubId", 0, <<>>, "ok"))
            /\ users' = SubSeq(UserPool, 1, n)
            /\ IF Len(users') = 0
               THEN /\ Throw("UserFacingError", NoMatchMessage(input.githubUsername, input.coderUrl))
                    /\ UNCHANGED <<coderUsername, workspaceUrl, logs>>
               ELSE IF Len(users') > 1
               THEN /\ Throw("UserFacingError", MultipleMatchMessage(input.githubUsername, users'))
                    /\ UNCHANGED <<coderUsername, workspaceUrl, logs>>
               ELSE /\ coderUsername' = users'[1]
                    /\ workspaceUrl' = createWorkspaceUrl(input.coderUrl, users'[1], input.workspaceName)
                    /\ logs' = logs \o <<LogEntry(<<"Coder username for GitHub user ", input.githubUsername, " is ", users'[1]>>),
                                          LogEntry(<<"Workspace URL: ">> \o workspaceUrl')>>
                    /\ pc' = "githubGetIssueCommentBody"
                    /\ UNCHANGED error
    /\ UNCHANGED <<wf, env, input, commentBody, parameters, comment, workspaces,
                   githubEnv, exitCode, cancelled, outputs, failureStep>>
    /\ UNCHANGED legacyVars

\* Lines 595-601 and 545-558: the comment's body is read and the line with
\* the workspace URL appended to it.
githubGetIssueCommentBody ==
    /\ wf = "StartWorkspace"
    /\ pc = "githubGetIssueCommentBody"
    /\ \E outcome \in {"ok", "threw", "noBody"} :
        /\ calls' = Append(calls, Call("github.issues.getComment", input.githubStatusCommentId,
                                       IF outcome = "ok" THEN comment.body ELSE <<>>,
                                       IF outcome = "threw" THEN "threw" ELSE "ok"))
        /\ IF outcome = "ok"
           THEN /\ commentBody' = PreUpdateBody(comment.body, workspaceUrl)
                /\ pc' = "preUpdate"
                /\ UNCHANGED error
           ELSE IF outcome = "threw"
           THEN /\ Throw("HttpError", <<"Not Found">>)
                /\ UNCHANGED commentBody
           ELSE /\ Throw("AssertionError", <<"Issue comment body is required">>)
                /\ UNCHANGED commentBody
    /\ UNCHANGED <<wf, env, input, coderUsername, workspaceUrl, parameters,
                   comment, workspaces, githubEnv, exitCode, cancelled, outputs, failureStep,
                   users, logs>>
    /\ UNCHANGED legacyVars

\* githubUpdateIssueComment (lines 531-543): the body replaces the comment's.
githubUpdateIssueComment(commentId, body, ok, next) ==
    IF ok
    THEN /\ calls' = Append(calls, Call("github.issues.updateComment", commentId, body, "ok"))
         /\ comment' = IF comment.exists /\ comment.id = commentId
                       THEN [comment EXCEPT !.body = body]
                       ELSE comment
         /\ pc' = next
         /\ UNCHANGED error
    ELSE /\ calls' = Append(calls, Call("github.issues.updateComment", commentId, body, "threw"))
         /\ Throw("HttpError", <<"Update failed">>)
         /\ UNCHANGED comment

\* execute_preUpdate that writes the terminal text already.
execute_preUpdate_writesSuccess ==
    /\ wf = "StartWorkspace"
    /\ pc = "preUpdate"
    /\ \E ok \in BOOLEAN :
        githubUpdateIssueComment(input.githubStatusCommentId,
                                 PostUpdateBody(workspaceUrl, input.githubWorkflowRunUrl),
                                 ok, "getUserID")
    /\ UNCHANGED <<wf, env, input, coderUsername, workspaceUrl, commentBody,
                   parameters, workspaces, githubEnv, exitCode, cancelled,
                   outputs, failureStep, users, logs>>
    /\ UNCHANGED legacyVars

\* Lines 603-608: the pre-update is written.
execute_preUpdate ==
    /\ wf = "StartWorkspace"
    /\ pc = "preUpdate"
    /\ \E ok \in BOOLEAN :
        githubUpdateIssueComment(input.githubStatusCommentId, commentBody, ok, "getUserID")
    /\ UNCHANGED <<wf, env, input, coderUsername, workspaceUrl, commentBody,
                   parameters, workspaces, githubEnv, exitCode, cancelled,
                   outputs, failureStep,
                   users, logs>>
    /\ UNCHANGED legacyVars

\* getUserID that tries a second time when the first lookup fails.
getUserID_retries ==
    /\ wf = "StartWorkspace"
    /\ pc = "getUserID"
    /\ logs' = Append(logs, LogEntry(<<"Getting user ID">>))
    /\ \E ok \in BOOLEAN :
        IF ok
        THEN /\ calls' = Append(calls, Call("coder.getUserID", 0, <<>>, "ok"))
             /\ pc' = "getTemplateInfo"
             /\ UNCHANGED error
        ELSE /\ calls' = Append(calls, Call("coder.getUserID", 0, <<>>, "threw"))
             /\ IF \E i \in 1..Len(calls) : calls[i].op = "coder.getUserID"
                THEN Throw("Error", <<"Failed to get Coder user, status code: ", "404", ", body: ", "error">>)
                ELSE UNCHANGED <<pc, error>>
    /\ UNCHANGED <<wf, env, input, coderUsername, workspaceUrl, commentBody,
                   parameters, comment, workspaces, githubEnv, exitCode,
                   cancelled, outputs, failureStep, users>>
    /\ UNCHANGED legacyVars

\* coderStartWorkspace, lines 510-511 and 743-760: the Coder user's id.
getUserID ==
    /\ wf = "StartWorkspace"
    /\ pc = "getUserID"
    /\ logs' = Append(logs, LogEntry(<<"Getting user ID">>))
    /\ \E ok \in BOOLEAN :
        IF ok
        THEN /\ calls' = Append(calls, Call("coder.getUserID", 0, <<>>, "ok"))
             /\ pc' = "getTemplateInfo"
             /\ UNCHANGED error
        ELSE /\ calls' = Append(calls, Call("coder.getUserID", 0, <<>>, "threw"))
             /\ Throw("Error", <<"Failed to get Coder user, status code: ", "404", ", body: ", "error">>)
    /\ UNCHANGED <<wf, env, input, coderUsername, workspaceUrl, commentBody,
                   parameters, comment, workspaces, githubEnv, exitCode,
                   cancelled, outputs, failureStep,
                   users>>
    /\ UNCHANGED legacyVars

\* getTemplateInfo that lets the run go on when the lookup failed or found no
\* template of the name.
getTemplateInfo_ignoresFailure ==
    /\ wf = "StartWorkspace"
    /\ pc = "getTemplateInfo"
    /\ logs' = Append(logs, LogEntry(<<"Getting template info">>))
    /\ \E outcome \in {"found", "notFound", "httpError"} :
        /\ calls' = Append(calls, Call("coder.getTemplateInfo", 0, <<>>,
                                       IF outcome = "found" THEN "ok" ELSE "threw"))
        /\ pc' = "createWorkspace"
        /\ UNCHANGED error
    /\ UNCHANGED <<wf, env, input, coderUsername, workspaceUrl, commentBody,
                   parameters, comment, workspaces, githubEnv, exitCode,
                   cancelled, outputs, failureStep,
                   users>>
    /\ UNCHANGED legacyVars

\* coderStartWorkspace, lines 512-513 and 665-694: the template of that
\* exact name.
getTemplateInfo ==
    /\ wf = "StartWorkspace"
    /\ pc = "getTemplateInfo"
    /\ logs' = Append(logs, LogEntry(<<"Getting template info">>))
    /\ \E outcome \in {"found", "notFound", "httpError"} :
        IF outcome = "found"
        THEN /\ calls' = Append(calls, Call("coder.getTemplateInfo", 0, <<>>, "ok"))
             /\ pc' = "createWorkspace"
             /\ UNCHANGED error
        ELSE /\ calls' = Append(calls, Call("coder.getTemplateInfo", 0, <<>>, "threw"))
             /\ IF outcome = "notFound"
                THEN Throw("Error", <<"Template with name ", input.templateName, " not found">>)
                ELSE Throw("Error", <<"Failed to get Coder templates, status code: ", "500">>)
    /\ UNCHANGED <<wf, env, input, coderUsername, workspaceUrl, commentBody,
                   parameters, comment, workspaces, githubEnv, exitCode,
                   cancelled, outputs, failureStep,
                   users>>
    /\ UNCHANGED legacyVars

\* The workspace the creation call asks for.
WorkspaceRequest ==
    [owner |-> coderUsername, template |-> input.templateName,
     name |-> input.workspaceName, parameters |-> parameters]

\* createWorkspace without the check of response.ok: a refusal fails only
\* when its body is decoded.
createWorkspace_noStatusCheck ==
    /\ wf = "StartWorkspace"
    /\ pc = "createWorkspace"
    /\ \E outcome \in {"created", "refused", "createdBadResponse"} :
        IF outcome = "created"
        THEN /\ calls' = Append(calls, Call("coder.createWorkspace", 0, <<>>, "ok"))
             /\ logs' = logs \o <<LogEntry(<<"Creating workspace">>), LogEntry(<<"Workspace created">>)>>
             /\ workspaces' = Append(workspaces, WorkspaceRequest)
             /\ pc' = "postUpdate"
             /\ UNCHANGED error
        ELSE /\ calls' = Append(calls, Call("coder.createWorkspace", 0, <<>>, "threw"))
             /\ logs' = Append(logs, LogEntry(<<"Creating workspace">>))
             /\ workspaces' = IF outcome = "refused" THEN workspaces
                              ELSE Append(workspaces, WorkspaceRequest)
             /\ Throw("ZodError", <<"Invalid response">>)
    /\ UNCHANGED <<wf, env, input, coderUsername, workspaceUrl, commentBody,
                   parameters, comment, githubEnv, exitCode, cancelled, outputs,
                   failureStep, users>>
    /\ UNCHANGED legacyVars

\* createWorkspace whose refusal is swallowed: execute() goes on to the
\* terminal comment.
createWorkspace_swallowsRefusal ==
    /\ wf = "StartWorkspace"
    /\ pc = "createWorkspace"
    /\ \E outcome \in {"created", "refused"} :
        IF outcome = "created"
        THEN /\ calls' = Append(calls, Call("coder.createWorkspace", 0, <<>>, "ok"))
             /\ logs' = logs \o <<LogEntry(<<"Creating workspace">>), LogEntry(<<"Workspace created">>)>>
             /\ workspaces' = Append(workspaces, WorkspaceRequest)
             /\ pc' = "postUpdate"
        ELSE /\ calls' = Append(calls, Call("coder.createWorkspace", 0, <<>>, "threw"))
             /\ logs' = Append(logs, LogEntry(<<"Creating workspace">>))
             /\ pc' = "postUpdate"
             /\ UNCHANGED workspaces
    /\ UNCHANGED <<wf, env, input, coderUsername, workspaceUrl, commentBody,
                   parameters, comment, githubEnv, exitCode, cancelled, outputs,
                   failureStep, users, error>>
    /\ UNCHANGED legacyVars

\* createWorkspace that reports a refusal in the comment itself before it
\* throws.
createWorkspace_postsFailure ==
    /\ wf = "StartWorkspace"
    /\ pc = "createWorkspace"
    /\ \E outcome \in {"created", "refused"} :
        IF outcome = "created"
        THEN /\ calls' = Append(calls, Call("coder.createWorkspace", 0, <<>>, "ok"))
             /\ logs' = logs \o <<LogEntry(<<"Creating workspace">>), LogEntry(<<"Workspace created">>)>>
             /\ workspaces' = Append(workspaces, WorkspaceRequest)
             /\ pc' = "postUpdate"
             /\ UNCHANGED <<error, comment>>
        ELSE /\ calls' = Append(calls, Call("coder.createWorkspace", 0, <<>>, "threw"))
             /\ logs' = Append(logs, LogEntry(<<"Creating workspace">>))
             /\ comment' = [comment EXCEPT !.body = FailureBody(FALSE, <<>>, RunUrl)]
             /\ Throw("Error", <<"Failed to create Coder workspace, status code: ", "400", ", body: ", "error">>)
             /\ UNCHANGED workspaces
    /\ UNCHANGED <<wf, env, input, coderUsername, workspaceUrl, commentBody,
                   parameters, githubEnv, exitCode, cancelled, outputs,
                   failureStep, users>>
    /\ UNCHANGED legacyVars

\* coderStartWorkspace, lines 514-521 and 700-738: the creation call.  The
\* platform refuses it, or accepts it; the response of an accepted call is
\* then decoded, which can fail as well.
createWorkspace ==
    /\ wf = "StartWorkspace"
    /\ pc = "createWorkspace"
    /\ \E outcome \in {"created", "refused", "createdBadResponse"} :
        IF outcome = "created"
        THEN /\ calls' = Append(calls, Call("coder.createWorkspace", 0, <<>>, "ok"))
             /\ logs' = logs \o <<LogEntry(<<"Creating workspace">>), LogEntry(<<"Workspace created">>)>>
             /\ workspaces' = Append(workspaces, WorkspaceRequest)
             /\ pc' = "postUpdate"
             /\ UNCHANGED error
        ELSE IF outcome = "refused"
        THEN /\ calls' = Append(calls, Call("coder.createWorkspace", 0, <<>>, "threw"))
             /\ logs' = Append(logs, LogEntry(<<"Creating workspace">>))
             /\ Throw("Error", <<"Failed to create Coder workspace, status code: ", "400", ", body: ", "error">>)
             /\ UNCHANGED workspaces
        ELSE /\ calls' = Append(calls, Call("coder.createWorkspace", 0, <<>>, "threw"))
             /\ logs' = Append(logs, LogEntry(<<"Creating workspace">>))
             /\ workspaces' = Append(workspaces, WorkspaceRequest)
             /\ Throw("ZodError", <<"Invalid response">>)
    /\ UNCHANGED <<wf, env, input, coderUsername, workspaceUrl, commentBody,
                   parameters, comment, githubEnv, exitCode, cancelled, outputs,
                   failureStep,
                   users>>
    /\ UNCHANGED legacyVars

\* execute_postUpdate that addresses another comment than the input's.
execute_postUpdate_otherComment ==
    /\ wf = "StartWorkspace"
    /\ pc = "postUpdate"
    /\ \E ok \in BOOLEAN :
        githubUpdateIssueComment(input.githubStatusCommentId + 1,
                                 PostUpdateBody(workspaceUrl, input.githubWorkflowRunUrl),
                                 ok, "returned")
    /\ UNCHANGED <<wf, env, input, coderUsername, workspaceUrl, commentBody,
                   parameters, workspaces, githubEnv, exitCode, cancelled,
                   outputs, failureStep, users, logs>>
    /\ UNCHANGED legacyVars

\* execute_postUpdate that appends the terminal text to the pre-update body
\* instead of replacing it.
execute_postUpdate_appends ==
    /\ wf = "StartWorkspace"
    /\ pc = "postUpdate"
    /\ \E ok \in BOOLEAN :
        githubUpdateIssueComment(input.githubStatusCommentId,
                                 commentBody \o <<"\n">> \o PostUpdateBody(workspaceUrl, input.githubWorkflowRunUrl),
                                 ok, "returned")
    /\ UNCHANGED <<wf, env, input, coderUsername, workspaceUrl, commentBody,
                   parameters, workspaces, githubEnv, exitCode, cancelled,
                   outputs, failureStep, users, logs>>
    /\ UNCHANGED legacyVars

\* Lines 616-621: the terminal comment of a successful run.
execute_postUpdate ==
    /\ wf = "StartWorkspace"
    /\ pc = "postUpdate"
    /\ \E ok \in BOOLEAN :
        githubUpdateIssueComment(input.githubStatusCommentId,
                                 PostUpdateBody(workspaceUrl, input.githubWorkflowRunUrl),
                                 ok, "returned")
    /\ UNCHANGED <<wf, env, input, coderUsername, workspaceUrl, commentBody,
                   parameters, workspaces, githubEnv, exitCode, cancelled,
                   outputs, failureStep,
                   users, logs>>
    /\ UNCHANGED legacyVars

(***************************************************************************)
(* index.ts: the end of the process.                                       *)
(***************************************************************************)
\* main_catch that lets the process end with status 0, so that the failure
\* step does not run.
main_catch_exitsZero ==
    /\ wf = "StartWorkspace"
    /\ error # NoError
    /\ exitCode = -1
    /\ githubEnv' = IF error.kind = "UserFacingError" /\ ~Falsy(env.GITHUB_ENV)
                    THEN [set |-> TRUE, ERROR_MSG |-> EnvFileValue(EnvFileLine(error.message))]
                    ELSE githubEnv
    /\ exitCode' = 0
    /\ wf' = "Done"
    /\ UNCHANGED <<env, input, pc, coderUsername, workspaceUrl, commentBody,
                   parameters, comment, calls, workspaces, error, cancelled,
                   outputs, failureStep, users, logs>>
    /\ UNCHANGED legacyVars

\* main_catch without the test of the error's class: every error's message
\* is passed on.
main_catch_passesEveryError ==
    /\ wf = "StartWorkspace"
    /\ error # NoError
    /\ exitCode = -1
    /\ githubEnv' = IF ~Falsy(env.GITHUB_ENV)
                    THEN [set |-> TRUE, ERROR_MSG |-> EnvFileValue(EnvFileLine(error.message))]
                    ELSE githubEnv
    /\ exitCode' = 1
    /\ wf' = "CommentFailure"
    /\ UNCHANGED <<env, input, pc, coderUsername, workspaceUrl, commentBody,
                   parameters, comment, calls, workspaces, error, cancelled,
                   outputs, failureStep, users, logs>>
    /\ UNCHANGED legacyVars

\* Lines 40-51: an error is caught; a UserFacingError's message is passed on
\* through the file GITHUB_ENV names; the process exits with status 1.
main_catch ==
    /\ wf = "StartWorkspace"
    /\ error # NoError
    /\ exitCode = -1
    /\ githubEnv' = IF error.kind = "UserFacingError" /\ ~Falsy(env.GITHUB_ENV)
                    THEN [set |-> TRUE, ERROR_MSG |-> EnvFileValue(EnvFileLine(error.message))]
                    ELSE githubEnv
    /\ exitCode' = 1
    /\ wf' = "CommentFailure"
    /\ UNCHANGED <<env, input, pc, coderUsername, workspaceUrl, commentBody,
                   parameters, comment, calls, workspaces, error, cancelled,
                   outputs, failureStep,
                   users, logs>>
    /\ UNCHANGED legacyVars

\* Lines 38-41: execute() returned; the process ends with status 0 and the
\* failure step is skipped.
main_return ==
    /\ wf = "StartWorkspace"
    /\ pc = "returned"
    /\ exitCode = -1
    /\ exitCode' = 0
    /\ wf' = "Done"
    /\ UNCHANGED <<env, input, pc, coderUsername, workspaceUrl, commentBody,
                   parameters, comment, calls, workspaces, error, githubEnv,
                   cancelled, outputs, failureStep,
                   users, logs>>
    /\ UNCHANGED legacyVars

(***************************************************************************)
(* action.yml: the run is cancelled while the step "Start workspace" runs. *)
(***************************************************************************)
Cancel ==
    /\ wf = "StartWorkspace"
    /\ exitCode = -1
    /\ cancelled' = TRUE
    /\ pc' = IF pc \in {"returned", "thrown"} THEN pc ELSE "killed"
    /\ wf' = "CommentFailure"
    /\ UNCHANGED <<env, input, coderUsername, workspaceUrl, commentBody,
                   parameters, comment, calls, workspaces, error, githubEnv,
                   exitCode, outputs, failureStep,
                   users, logs>>
    /\ UNCHANGED legacyVars

(***************************************************************************)
(* action.yml, step "Comment failure" (if: failure() || cancelled()).      *)
(***************************************************************************)
\* CommentFailure that keeps the comment's body and appends its text to it.
CommentFailure_appends ==
    /\ wf = "CommentFailure"
    /\ IF outputs.comment_id = 0
       THEN /\ failureStep' = "skipped"
            /\ UNCHANGED comment
       ELSE \E ok \in BOOLEAN :
            IF ok
            THEN /\ failureStep' = "updated"
                 /\ comment' = [comment EXCEPT !.body =
                                   comment.body \o <<"\n">> \o
                                   FailureBody(githubEnv.set, githubEnv.ERROR_MSG, RunUrl)]
            ELSE /\ failureStep' = "threw"
                 /\ UNCHANGED comment
    /\ wf' = "Done"
    /\ UNCHANGED <<env, input, pc, coderUsername, workspaceUrl, commentBody,
                   parameters, calls, workspaces, error, githubEnv, exitCode,
                   cancelled, outputs, users, logs>>
    /\ UNCHANGED legacyVars

\* Lines 391-410: without a comment id the step only warns; otherwise it
\* replaces the comment's body by the failure text.
CommentFailure ==
    /\ wf = "CommentFailure"
    /\ IF outputs.comment_id = 0
       THEN /\ failureStep' = "skipped"
            /\ UNCHANGED comment
       ELSE \E ok \in BOOLEAN :
            IF ok
            THEN /\ failureStep' = "updated"
                 /\ comment' = [comment EXCEPT !.body =
                                   FailureBody(githubEnv.set, githubEnv.ERROR_MSG, RunUrl)]
            ELSE /\ failureStep' = "threw"
                 /\ UNCHANGED comment
    /\ wf' = "Done"
    /\ UNCHANGED <<env, input, pc, coderUsername, workspaceUrl, commentBody,
                   parameters, calls, workspaces, error, githubEnv, exitCode,
                   cancelled, outputs,
                   users, logs>>
    /\ UNCHANGED legacyVars

Next ==
    \/ InitialComment
    \/ main
    \/ execute_validate
    \/ execute_parseParameters
    \/ githubGetUserIdFromUsername
    \/ coderUsernameByGitHubId
    \/ githubGetIssueCommentBody
    \/ execute_preUpdate
    \/ getUserID
    \/ getTemplateInfo
    \/ createWorkspace
    \/ execute_postUpdate
    \/ main_catch
    \/ main_return
    \/ Cancel
    \/ CommentFailure

Spec == Init /\ [][Next]_vars

(***************************************************************************)
(* execute() called on its own, as the tests call it: an input the schema  *)
(* accepts and a comment that holds any of several bodies.                 *)
(***************************************************************************)
\* The bodies the comment holds when execute() is called: the tests' body,
\* the body of the initial step, and a body a previous run has appended its
\* line to.
CommentBodies ==
    {<<"Initial comment">>,
     InitialBody,
     <<"Initial comment", "\nWorkspace will be available here: ",
       CoderUrl, "/", "alice", "/", WorkspaceName>>}

InitExecute ==
    /\ wf = "StartWorkspace"
    /\ outputs = [comment_id |-> StatusCommentId]
    /\ env \in {e \in [GITHUB_USERNAME : GithubUsernameEnvValues,
                        CODER_USERNAME : CoderUsernameEnvValues,
                        WORKSPACE_PARAMETERS : ParameterBlobs,
                        GITHUB_ENV : {Undef}] : ActionInputSchemaOk(e)}
    /\ input = ActionInputOf(env)
    /\ pc = "execute"
    /\ coderUsername = ""
    /\ workspaceUrl = <<>>
    /\ commentBody = <<>>
    /\ parameters = {}
    /\ comment \in {[exists |-> TRUE, id |-> StatusCommentId, body |-> b] : b \in CommentBodies}
    /\ calls = <<>>
    /\ workspaces = <<>>
    /\ error = NoError
    /\ githubEnv = [set |-> FALSE, ERROR_MSG |-> <<>>]
    /\ exitCode = -1
    /\ cancelled = FALSE
    /\ failureStep = "notRun"
    /\ users = <<>>
    /\ logs = <<>>
    /\ legacyGithubUsername = Undef
    /\ output = <<>>
    /\ legacyUsername = <<>>
    /\ legacyPc = "idle"
    /\ execCalls = <<>>

NextExecute ==
    \/ execute_validate
    \/ execute_parseParameters
    \/ githubGetUserIdFromUsername
    \/ coderUsernameByGitHubId
    \/ githubGetIssueCommentBody
    \/ execute_preUpdate
    \/ getUserID
    \/ getTemplateInfo
    \/ createWorkspace
    \/ execute_postUpdate

SpecExecute == InitExecute /\ [][NextExecute]_vars

(***************************************************************************)
(* Vocabulary of the properties.                                           *)
(***************************************************************************)
ProvisionerOps == {"coder.getUserID", "coder.getTemplateInfo", "coder.createWorkspace"}
ResolutionOps == {"github.users.getByUsername", "coder.getCoderUsersByGitHubId"}
CommentOps == {"github.issues.getComment", "github.issues.updateComment"}

CallsOf(op) == {i \in 1..Len(calls) : calls[i].op = op}

\* A write of the comment that carries the pre-update line.
IsPreUpdateWrite(c) ==
    /\ c.op = "github.issues.updateComment"
    /\ \E k \in 1..Len(c.body) : c.body[k] = "\nWorkspace will be available here: "

\* A write of the comment that carries the terminal success text.
IsTerminalWrite(c) ==
    /\ c.op = "github.issues.updateComment"
    /\ Len(c.body) > 0
    /\ c.body[1] = SuccessMarker

HasSuccessMarker(body) == Len(body) > 0 /\ body[1] = SuccessMarker
HasFailureMarker(body) == Len(body) > 0 /\ body[1] = FailureMarker

LastCall == calls[Len(calls)]

\* execute() has been entered with an input.
ExecuteStarted == pc # "notStarted" /\ input # NoInput

(***************************************************************************)
(* C1: in every run of execute(), the provisioner is invoked only after a  *)
(* pre-update write of the comment succeeded, and the terminal success     *)
(* comment is written only after the creation call returned successfully:  *)
(* it is never written when creation failed or was not attempted.          *)
(***************************************************************************)
C1_StepOrder ==
    /\ \A i \in 1..Len(calls) :
        calls[i].op \in ProvisionerOps =>
            \E j \in 1..(i - 1) : IsPreUpdateWrite(calls[j]) /\ calls[j].outcome = "ok"
    /\ \A i \in 1..Len(calls) :
        IsTerminalWrite(calls[i]) =>
            \E j \in 1..(i - 1) : calls[j].op = "coder.createWorkspace" /\ calls[j].outcome = "ok"
    /\ (comment.exists /\ HasSuccessMarker(comment.body)) => Len(workspaces) = 1

\* A run that went through all three steps.
C1_Witness ==
    /\ pc = "returned"
    /\ \E i \in 1..Len(calls) : IsTerminalWrite(calls[i]) /\ calls[i].outcome = "ok"
    /\ \E i \in 1..Len(calls) : calls[i].op = "coder.createWorkspace"

(***************************************************************************)
(* C2: when execute() starts with neither username set, or with both set,  *)
(* it fails with an error that is not a UserFacingError, before any        *)
(* external call: no lookup, no search, no comment read or write, no       *)
(* workspace creation.                                                     *)
(***************************************************************************)
BadUsernames ==
    \/ Falsy(input.githubUsername) /\ Falsy(input.coderUsername)
    \/ ~Falsy(input.githubUsername) /\ ~Falsy(input.coderUsername)

C2_ConfigurationError ==
    (ExecuteStarted /\ BadUsernames) =>
        /\ pc \in {"execute", "thrown", "killed"}
        /\ pc = "thrown" => error.kind \notin {"none", "UserFacingError"}
        /\ calls = <<>>
        /\ workspaces = <<>>
        /\ failureStep = "notRun" => comment.body = InitialBody

\* execute() rejected an input with both usernames set.
C2_Witness ==
    /\ pc = "thrown"
    /\ ~Falsy(input.githubUsername) /\ ~Falsy(input.coderUsername)
    /\ error.kind = "Error"

(***************************************************************************)
(* C3: in the direct-API transport, when the Coder user search returns no  *)
(* match or more than one, execute() fails with a UserFacingError, writes  *)
(* no update of the comment (it keeps its initial body) and makes no       *)
(* workspace-creation call.                                                *)
(***************************************************************************)
SearchReturned == \E i \in 1..Len(calls) :
    calls[i].op = "coder.getCoderUsersByGitHubId" /\ calls[i].outcome = "ok"

C3_NoUniqueMatch ==
    (SearchReturned /\ Len(users) # 1) =>
        /\ pc = "thrown"
        /\ error.kind = "UserFacingError"
        /\ CallsOf("github.issues.updateComment") = {}
        /\ \A i \in 1..Len(calls) : calls[i].op \notin ProvisionerOps
        /\ workspaces = <<>>
        /\ failureStep = "notRun" => comment.body = InitialBody

\* The search returned four users.
C3_Witness ==
    /\ SearchReturned
    /\ Len(users) = 4
    /\ pc = "thrown"

(***************************************************************************)
(* C4: when the Coder username is given and the GitHub username is not,    *)
(* identity resolution is skipped: neither the GitHub user lookup nor the  *)
(* Coder user search is ever called, and the username given is the         *)
(* resolved identity.                                                      *)
(***************************************************************************)
AfterResolution == {"githubGetIssueCommentBody", "preUpdate", "getUserID",
                    "getTemplateInfo", "createWorkspace", "postUpdate", "returned"}

C4_OverrideSkipsResolution ==
    (ExecuteStarted /\ ~Falsy(input.coderUsername) /\ Falsy(input.githubUsername)) =>
        /\ \A i \in 1..Len(calls) : calls[i].op \notin ResolutionOps
        /\ pc \in AfterResolution =>
            /\ coderUsername = input.coderUsername
            /\ workspaceUrl = createWorkspaceUrl(input.coderUrl, input.coderUsername, input.workspaceName)
        /\ \A i \in 1..Len(workspaces) : workspaces[i].owner = input.coderUsername
        /\ pc \notin {"githubGetUserIdFromUsername", "coderUsernameByGitHubId"}

\* A successful run for the Coder username given.
C4_Witness ==
    /\ pc = "returned"
    /\ input.coderUsername = "hugo-coder"
    /\ input.githubUsername = Undef
    /\ Len(workspaces) = 1

(***************************************************************************)
(* C5: when the provisioner fails after the pre-update was posted,         *)
(* execute() rejects with the provisioner's error as it is, writes no      *)
(* further comment, and the comment keeps the pre-update body.             *)
(***************************************************************************)
ProvisionerMessages == {"Failed to get Coder user, status code: ",
                        "Template with name ",
                        "Failed to get Coder templates, status code: ",
                        "Failed to create Coder workspace, status code: ",
                        "Invalid response"}

ProvisionerFailed ==
    /\ pc = "thrown"
    /\ Len(calls) > 0
    /\ LastCall.op \in ProvisionerOps

C5_ProvisionerFailure ==
    ProvisionerFailed =>
        /\ LastCall.outcome = "threw"
        /\ error.kind \in {"Error", "ZodError"}
        /\ error.message[1] \in ProvisionerMessages
        /\ Cardinality(CallsOf("github.issues.updateComment")) = 1
        /\ failureStep = "notRun" =>
            /\ comment.body = commentBody
            /\ comment.body = PreUpdateBody(InitialBody, workspaceUrl)

\* The creation call was refused.
C5_Witness ==
    /\ ProvisionerFailed
    /\ LastCall.op = "coder.createWorkspace"
    /\ workspaces = <<>>
    /\ failureStep = "notRun"

(***************************************************************************)
(* C6 as stated: a run can fail only before the workspace is created;      *)
(* there is no error exit once the creation call has returned              *)
(* successfully (the state WorkspaceCreated).                              *)
(***************************************************************************)
C6_FailsOnlyBeforeCreation ==
    pc = "thrown" =>
        \A i \in 1..Len(calls) :
            ~(calls[i].op = "coder.createWorkspace" /\ calls[i].outcome = "ok")

\* execute() threw after the platform accepted the creation call.
FailedAfterAcceptance ==
    /\ Len(calls) > 0
    /\ LastCall.outcome = "threw"
    /\ \/ LastCall.op = "coder.createWorkspace" /\ error.kind = "ZodError"
       \/ IsTerminalWrite(LastCall)

(***************************************************************************)
(* C6 as amended: execute() can fail before the workspace is created, and  *)
(* also after the creation call was accepted, in exactly two places: when  *)
(* the creation response is decoded and when the terminal comment is       *)
(* written.  In these two failures one workspace exists; in every other    *)
(* failure none does.  A run that returns has created exactly one.         *)
(***************************************************************************)
C6_ErrorExits ==
    /\ pc = "thrown" =>
        /\ Len(workspaces) <= 1
        /\ workspaces # <<>> <=> FailedAfterAcceptance
    /\ pc = "returned" => Len(workspaces) = 1

\* The terminal write failed after the workspace was created.
C6_Witness ==
    /\ pc = "thrown"
    /\ Len(workspaces) = 1
    /\ IsTerminalWrite(LastCall)

(***************************************************************************)
(* C7 as stated: at the end of every run of the action, a comment that     *)
(* ends with the failure marker means no workspace was created, and one    *)
(* that ends with the success marker means exactly one was created.        *)
(* Stated here over the runs that were not cancelled, which the claim      *)
(* covers as well.                                                         *)
(***************************************************************************)
RunEnded == wf = "Done" /\ comment.exists

C7_MarkerMatchesWorkspace ==
    (RunEnded /\ ~cancelled) =>
        /\ HasFailureMarker(comment.body) => workspaces = <<>>
        /\ HasSuccessMarker(comment.body) => Len(workspaces) = 1

(***************************************************************************)
(* C7 as amended: at the end of every run, a comment with the success      *)
(* marker means exactly one workspace was created; a comment with the      *)
(* failure marker means at most one was created, and one only when the     *)
(* run failed or was cancelled at or after the creation call (the last     *)
(* call made is the creation call or the terminal comment write).          *)
(***************************************************************************)
C7_MarkerBoundsWorkspace ==
    RunEnded =>
        /\ HasSuccessMarker(comment.body) => Len(workspaces) = 1
        /\ HasFailureMarker(comment.body) =>
            /\ Len(workspaces) <= 1
            /\ Len(workspaces) = 1 =>
                /\ Len(calls) > 0
                /\ LastCall.op = "coder.createWorkspace" \/ IsTerminalWrite(LastCall)

\* A run that ended with the failure marker and a workspace.
C7_Witness ==
    /\ RunEnded
    /\ HasFailureMarker(comment.body)
    /\ Len(workspaces) = 1
    /\ pc = "thrown"

(***************************************************************************)
(* C8 as stated: every run in which the initial comment was created ends   *)
(* with the comment in a terminal state: the success text with the         *)
(* workspace URL when the run succeeded, a failure text when it failed or  *)
(* was cancelled; never the in-progress or pre-update text alone.  Stated  *)
(* here over the runs that were not cancelled, which the claim covers as   *)
(* well.                                                                   *)
(***************************************************************************)
RunSucceeded == exitCode = 0 /\ ~cancelled

TerminalComment ==
    IF RunSucceeded
    THEN comment.body = PostUpdateBody(workspaceUrl, RunUrl)
    ELSE HasFailureMarker(comment.body)

KnownOps == ResolutionOps \cup ProvisionerOps \cup CommentOps

C9_CommentAccess ==
    /\ Cardinality(CallsOf("github.issues.getComment")) <= 1
    /\ Cardinality(CallsOf("github.issues.updateComment")) <= 2
    /\ \A i \in 1..Len(calls) :
        /\ calls[i].op \in KnownOps
        /\ calls[i].op \in CommentOps =>
            /\ calls[i].commentId = input.githubStatusCommentId
            /\ calls[i].commentId = outputs.comment_id
    /\ outputs.comment_id # 0 => comment.exists /\ comment.id = outputs.comment_id
    /\ pc = "returned" =>
        /\ Cardinality(CallsOf("github.issues.getComment")) = 1
        /\ Cardinality(CallsOf("github.issues.updateComment")) = 2
        /\ \E r, i, j \in 1..Len(calls) :
            /\ r < i /\ i < j
            /\ calls[r].op = "github.issues.getComment"
            /\ IsPreUpdateWrite(calls[i]) /\ ~IsTerminalWrite(calls[i])
            /\ IsTerminalWrite(calls[j])

\* A successful run: one read, two writes.
C9_Witness ==
    /\ pc = "returned"
    /\ Cardinality(CallsOf("github.issues.updateComment")) = 2
    /\ Cardinality(CallsOf("github.issues.getComment")) = 1

(***************************************************************************)
(* C10: there are no retries: the GitHub user lookup, the Coder user       *)
(* search, the Coder user-id lookup, the template lookup and the workspace *)
(* creation are each attempted at most once in a run, a call that fails    *)
(* is the last call of the run, and once execute() has failed it makes no  *)
(* further call.                                                           *)
(***************************************************************************)
NoRetry ==
    /\ \A op \in ResolutionOps \cup ProvisionerOps : Cardinality(CallsOf(op)) <= 1
    /\ \A i \in 1..Len(calls) : calls[i].outcome = "threw" => i = Len(calls) /\ pc \in {"thrown"}

C10_NoRetries ==
    /\ []NoRetry
    /\ [][pc = "thrown" => (pc' = "thrown" /\ calls' = calls /\ workspaces' = workspaces)]_vars

\* A run that failed at its third call.
C10_Witness ==
    /\ pc = "thrown"
    /\ Len(calls) >= 3
    /\ LastCall.outcome = "threw"

(***************************************************************************)
(* C11: when the parameter blob does not parse, execute() aborts with no   *)
(* external side effect: no GitHub user lookup, no Coder user search, no   *)
(* read or write of the comment (it keeps its initial body) and no         *)
(* workspace creation has happened in that run.                            *)
(***************************************************************************)
\* The blobs that are not YAML, or hold a value that is not a string.
MalformedBlobs == {InvalidBlob, NumberBlob, BooleanBlob, NullBlob, NestedBlob}

ParseErrors == {"YAMLParseError", "ZodError"}

C11_ParseFailureNoSideEffect ==
    (ExecuteStarted /\ input.workspaceParameters \in MalformedBlobs) =>
        /\ pc \in {"execute", "parseParameters", "thrown", "killed"}
        /\ (pc = "thrown" /\ ~BadUsernames) => error.kind \in ParseErrors
        /\ calls = <<>>
        /\ workspaces = <<>>
        /\ parameters = {}
        /\ failureStep = "notRun" => comment.body = InitialBody

\* execute() rejected a blob that is not YAML, for a GitHub username.
C11_Witness ==
    /\ pc = "thrown"
    /\ input.workspaceParameters = InvalidBlob
    /\ input.githubUsername = "github-user"
    /\ input.coderUsername = Undef
    /\ error.kind = "YAMLParseError"
    /\ calls = <<>>

(***************************************************************************)
(* C12: the pre-update body execute() writes is exactly the body it read   *)
(* from the comment immediately before, followed by one appended line that *)
(* carries the workspace URL; the body read is kept unmodified as a        *)
(* prefix, whatever it contained.                                          *)
(***************************************************************************)
\* The write execute() makes before the workspace is created.
IsFirstWrite(i) ==
    /\ calls[i].op = "github.issues.updateComment"
    /\ \A j \in 1..(i - 1) : calls[j].op # "github.issues.updateComment"

C12_PreUpdateAppendsLine ==
    /\ \A i \in 1..Len(calls) :
        IsFirstWrite(i) =>
            /\ i > 1
            /\ calls[i - 1].op = "github.issues.getComment"
            /\ calls[i - 1].outcome = "ok"
            /\ calls[i - 1].body \in CommentBodies
            /\ calls[i].body = calls[i - 1].body
                                \o <<"\nWorkspace will be available here: ">>
                                \o <<input.coderUrl, "/", coderUsername, "/", input.workspaceName>>
            /\ SubSeq(calls[i].body, 1, Len(calls[i - 1].body)) = calls[i - 1].body
            /\ Len(calls[i].body) = Len(calls[i - 1].body) + 6
    /\ pc = "getUserID" => comment.body = calls[Len(calls)].body

\* The pre-update was written to a comment that already held such a line.
C12_Witness ==
    /\ pc = "getUserID"
    /\ Len(comment.body) = 13
    /\ comment.body[2] = "\nWorkspace will be available here: "
    /\ comment.body[8] = "\nWorkspace will be available here: "
    /\ comment.body[5] = "alice"
    /\ comment.body[11] = "hugo"

(***************************************************************************)
(* C13 as stated: after a successful run with the GitHub username set and  *)
(* exactly one matching Coder user u, the final status comment contains    *)
(* both a "workspace will be available" line with the URL                  *)
(* <coderUrl>/u/<workspaceName> and a terminal success line with the same  *)
(* URL.                                                                    *)
(***************************************************************************)
\* part occurs in body, token by token.
Contains(body, part) ==
    \E k \in 1..(Len(body) - Len(part) + 1) : SubSeq(body, k, k + Len(part) - 1) = part

\* The run succeeded for the one Coder user the search returned.
SucceededForMatch ==
    /\ wf = "Done"
    /\ exitCode = 0
    /\ ~Falsy(input.githubUsername)
    /\ Len(users) = 1

AvailableLine(u) ==
    <<"\nWorkspace will be available here: ", CoderUrl, "/", u, "/", WorkspaceName>>

StartedLine(u) ==
    <<" Workspace started: ", CoderUrl, "/", u, "/", WorkspaceName>>

C13_FinalHasBothLines ==
    SucceededForMatch =>
        /\ Contains(comment.body, AvailableLine(users[1]))
        /\ Contains(comment.body, StartedLine(users[1]))

(***************************************************************************)
(* C13 as amended: after such a run the comment was written twice: first   *)
(* with the body read followed by the "Workspace will be available here"   *)
(* line with the URL <coderUrl>/u/<workspaceName>, then with the terminal  *)
(* success text with the same URL, which replaced the whole body: the      *)
(* final comment is the success marker, the "Workspace started" line with  *)
(* that URL and the link to the run, and no longer holds the "will be      *)
(* available" line.                                                        *)
(***************************************************************************)
C13_FinalIsTerminalText ==
    SucceededForMatch =>
        /\ \E i, j \in 1..Len(calls) :
            /\ i < j
            /\ IsFirstWrite(i)
            /\ calls[i].body = InitialBody \o AvailableLine(users[1])
            /\ calls[j].op = "github.issues.updateComment"
            /\ calls[j].body = comment.body
        /\ comment.body = <<SuccessMarker>> \o StartedLine(users[1])
                           \o <<"\nView [Github Actions logs](", RunUrl, ").">>
        /\ ~Contains(comment.body, <<"\nWorkspace will be available here: ">>)

\* A successful run for the GitHub user whose one match is hugo.
C13_Witness ==
    /\ SucceededForMatch
    /\ users = <<"hugo">>
    /\ HasSuccessMarker(comment.body)
    /\ Len(workspaces) = 1

(***************************************************************************)
(* C14: the resolved username is used consistently within a run: the       *)
(* workspace is created for the resolved identity (the Coder username      *)
(* given, otherwise the one user the search returned) with the input's     *)
(* template name and workspace name, and the URL in the pre-update and in  *)
(* the terminal comment is <coderUrl>/<that username>/<workspaceName>.     *)
(***************************************************************************)
ResolvedIdentity ==
    IF ~Falsy(input.coderUsername) THEN input.coderUsername ELSE users[1]

ResolvedUrl == <<input.coderUrl, "/", ResolvedIdentity, "/", input.workspaceName>>

C14_ResolvedUsernameUsed ==
    /\ \A i \in 1..Len(workspaces) :
        /\ workspaces[i].owner = ResolvedIdentity
        /\ workspaces[i].template = input.templateName
        /\ workspaces[i].name = input.workspaceName
        /\ workspaces[i].parameters = parameters
    /\ \A i \in 1..Len(calls) :
        calls[i].op = "github.issues.updateComment" =>
            /\ Falsy(input.coderUsername) => Len(users) = 1
            /\ IF IsFirstWrite(i)
               THEN SubSeq(calls[i].body, Len(calls[i].body) - 5, Len(calls[i].body))
                        = <<"\nWorkspace will be available here: ">> \o ResolvedUrl
               ELSE SubSeq(calls[i].body, 1, 7)
                        = <<SuccessMarker, " Workspace started: ">> \o ResolvedUrl
    /\ pc \in AfterResolution =>
        /\ coderUsername = ResolvedIdentity
        /\ workspaceUrl = ResolvedUrl

\* A run wrote both comments and created the workspace for the one match.
C14_Witness ==
    /\ pc = "returned"
    /\ Falsy(input.coderUsername)
    /\ users = <<"hugo">>
    /\ Len(workspaces) = 1
    /\ workspaces[1].owner = "hugo"
    /\ Cardinality(CallsOf("github.issues.updateComment")) = 2

(***************************************************************************)
(* C15: error surfacing from end to end.  On any uncaught error the        *)
(* process exits with a non-zero status.  In a workflow run (the runner    *)
(* sets GITHUB_ENV) a UserFacingError's message is passed on as ERROR_MSG  *)
(* and the failure step, when it updates the comment, shows that message   *)
(* verbatim after the failure marker; for every other error nothing is     *)
(* passed on and the failure step shows only the generic message with the  *)
(* link to the action logs.                                                *)
(***************************************************************************)
\* The error's message reaches the failure step.
MessagePassed == error.kind = "UserFacingError" /\ ~Falsy(env.GITHUB_ENV)

C15_ErrorSurfacing ==
    /\ error # NoError => exitCode \in {-1, 1}
    /\ (error # NoError /\ wf \in {"CommentFailure", "Done"} /\ ~cancelled) => exitCode = 1
    /\ exitCode = 1 =>
        /\ error # NoError
        /\ IF MessagePassed
           THEN githubEnv.set /\ githubEnv.ERROR_MSG = error.message
           ELSE ~githubEnv.set
        /\ failureStep = "updated" =>
            comment.body =
                IF MessagePassed
                THEN <<FailureMarker>> \o error.message
                ELSE <<FailureMarker,
                       "Failed to start the workspace. Please check the [action logs](",
                       RunUrl, ") for details.">>

\* The failure step showed the message of the no-match error.
C15_Witness ==
    /\ exitCode = 1
    /\ failureStep = "updated"
    /\ error.kind = "UserFacingError"
    /\ githubEnv.set
    /\ Len(comment.body) = 6
    /\ comment.body[1] = FailureMarker
    /\ comment.body[2] = "No matching Coder user found for GitHub user @"

(***************************************************************************)
(* C16 as stated: when a run fails after the pre-update comment was        *)
(* posted, the failure step appends the failure marker after the           *)
(* comment's existing content: the final comment still contains the        *)
(* pre-update body (with the "workspace will be available" line) followed  *)
(* by the failure marker.                                                  *)
(***************************************************************************)
\* The pre-update was posted and the failure step has updated the comment.
FailureAfterPreUpdate ==
    /\ RunEnded
    /\ failureStep = "updated"
    /\ \E i \in 1..Len(calls) : IsFirstWrite(i) /\ calls[i].outcome = "ok"

\* The body the pre-update gave the comment.
PostedPreUpdate == calls[CHOOSE i \in 1..Len(calls) : IsFirstWrite(i)].body

ParameterFormatFailure ==
    /\ pc = "thrown"
    /\ ~BadUsernames
    /\ input.workspaceParameters \in MalformedBlobs

C17_ParameterFailureUserFacing ==
    ParameterFormatFailure =>
        /\ error.kind = "UserFacingError"
        /\ (exitCode = 1 /\ ~Falsy(env.GITHUB_ENV)) =>
            /\ githubEnv.set
            /\ githubEnv.ERROR_MSG = error.message
        /\ (exitCode = 1 /\ ~Falsy(env.GITHUB_ENV) /\ failureStep = "updated") =>
            comment.body = <<FailureMarker>> \o error.message

(***************************************************************************)
(* C18: parseParameters either returns a flat mapping in which every value *)
(* is a string, or fails; it fails whenever a decoded value is not a       *)
(* string (a nested structure, a number, a boolean, null) and never        *)
(* returns a mapping that holds such a value, nor turns it into a string.  *)
(***************************************************************************)
\* execute() has called parseParameters.
ParseAttempted ==
    /\ ExecuteStarted
    /\ ~BadUsernames
    /\ pc \notin {"execute", "parseParameters", "killed"}

\* The texts of the values that are not strings, as coercion would give them.
CoercedTexts == {"1", "true", "~", "null", "", "{cpu: 2}", "[unclosed"}

C18_AllStringsOrFails ==
    /\ \A p \in parameters :
        /\ p.value \notin CoercedTexts
        /\ \E i \in 1..Len(input.workspaceParameters) :
            /\ input.workspaceParameters[i].key = p.name
            /\ YamlScalarType(input.workspaceParameters[i].raw) = "string"
    /\ parameters # {} => input.workspaceParameters \notin MalformedBlobs
    /\ ParseAttempted =>
        /\ input.workspaceParameters \in MalformedBlobs =>
            /\ pc = "thrown"
            /\ error.kind = IF input.workspaceParameters = InvalidBlob
                            THEN "YAMLParseError" ELSE "ZodError"
            /\ parameters = {}
        /\ input.workspaceParameters = ValidBlob =>
            parameters = {[name |-> "key", value |-> "value"],
                          [name |-> "key2", value |-> "value2"]}
        /\ input.workspaceParameters = QuotedBlob =>
            parameters = {[name |-> "count", value |-> "42"]}

\* parseParameters refused a nested value.
C18_Witness ==
    /\ ParseAttempted
    /\ input.workspaceParameters = NestedBlob
    /\ pc = "thrown"
    /\ error.kind = "ZodError"
    /\ parameters = {}

(***************************************************************************)
(* C19: identity resolution through the API with zero matches fails with   *)
(* a UserFacingError whose message contains the GitHub username literally  *)
(* and the external-auth linking URL <coderUrl>/settings/external-auth,    *)
(* and logs nothing: the log holds only what execute() logged before it    *)
(* called the resolution.                                                  *)
(***************************************************************************)
NoMatch == SearchReturned /\ Len(users) = 0

C19_NoMatchMessage ==
    NoMatch =>
        /\ pc = "thrown"
        /\ error.kind = "UserFacingError"
        /\ Contains(error.message, <<input.githubUsername>>)
        /\ Contains(error.message, <<input.coderUrl, "/settings/external-auth">>)
        /\ logs = <<[level |-> "log",
                     message |-> <<"Getting Coder username for GitHub user ", input.githubUsername>>]>>
        /\ \A i \in 1..Len(logs) : logs[i].level \notin {"warn", "error"}

\* The search returned no user for github-user.
C19_Witness ==
    /\ NoMatch
    /\ pc = "thrown"
    /\ input.githubUsername = "github-user"
    /\ error.message[2] = "github-user"
    /\ Len(logs) = 1

(***************************************************************************)
(* C20: identity resolution through the API with n > 1 matches fails with  *)
(* a UserFacingError whose message lists exactly the first min(n, 3)       *)
(* matched usernames in the order returned, followed by ", and others" if  *)
(* and only if n > 3; no username beyond the third is ever listed.         *)
(***************************************************************************)
SeveralMatches == SearchReturned /\ Len(users) > 1

IsUsername(token) == \E k \in 1..Len(UserPool) : UserPool[k] = token

\* The usernames a message lists, in order.
ListedUsernames(message) == SelectSeq(message, IsUsername)

\* The place of the last username in a message.
LastUsernameAt(message) ==
    CHOOSE k \in 1..Len(message) :
        /\ IsUsername(message[k])
        /\ \A j \in (k + 1)..Len(message) : ~IsUsername(message[j])

C20_ListsFirstThree ==
    SeveralMatches =>
        /\ pc = "thrown"
        /\ error.kind = "UserFacingError"
        /\ ListedUsernames(error.message)
               = SubSeq(users, 1, IF Len(users) < 3 THEN Len(users) ELSE 3)
        /\ \A k \in 4..Len(users) : ~Contains(error.message, <<users[k]>>)
        /\ \A k \in 1..(Len(ListedUsernames(error.message)) - 1) :
               Contains(error.message, <<users[k], ", ", users[k + 1]>>)
        /\ Contains(error.message, <<", and others">>) <=> Len(users) > 3
        /\ error.message[LastUsernameAt(error.message) + 1] =
               IF Len(users) > 3
               THEN ", and others"
               ELSE ". Please connect other users to other GitHub accounts and try again."

\* The search returned four users: three are listed, then ", and others".
C20_Witness ==
    /\ SeveralMatches
    /\ Len(users) = 4
    /\ ListedUsernames(error.message) = <<"hugo", "alice", "bob">>
    /\ Contains(error.message, <<"bob", ", and others">>)


(***************************************************************************)
(* The CLI transport (the StartWorkspaceAction class that runs the coder   *)
(* command): exec, coderUsersList, coderStartWorkspace and                 *)
(* parseCoderUsersListOutput.  SpecLegacy calls the methods of one object, *)
(* as the class's tests do: the parser on a table, or exec up to           *)
(* MaxExecCalls times.                                                     *)
(***************************************************************************)
\* The largest number of data rows of a table given to the parser.
MaxRows == 3

\* The largest number of commands one object runs.
MaxExecCalls == 2

\* The constructor's githubUsername (string | undefined).
LegacyGithubUsernames == {Undef, "", "github-user"}

\* White space, as String.prototype.trim() removes it.
WhiteSpace == {" ", "\t", "\n"}

\* String.prototype.trim(): white space is removed at both ends only.
RECURSIVE trim(_)
trim(text) ==
    IF Len(text) = 0 THEN text
    ELSE IF text[1] \in WhiteSpace THEN trim(Tail(text))
    ELSE IF text[Len(text)] \in WhiteSpace THEN trim(SubSeq(text, 1, Len(text) - 1))
    ELSE text

\* text.split("\n"): the pieces between line breaks; one piece, possibly
\* empty, when there is no line break.
RECURSIVE split(_)
split(text) ==
    IF \A i \in 1..Len(text) : text[i] # "\n" THEN <<text>>
    ELSE LET i == CHOOSE k \in 1..Len(text) :
                      text[k] = "\n" /\ \A j \in 1..(k - 1) : text[j] # "\n"
         IN <<SubSeq(text, 1, i - 1)>> \o split(SubSeq(text, i + 1, Len(text)))

\* The map without trim(): every line is listed as it is in the table.
TrimEach_keepsPadding(lines) == lines

\* lines.slice(1).map((line) => line.trim())
RECURSIVE TrimEach(_)
TrimEach(lines) ==
    IF Len(lines) = 0 THEN <<>>
    ELSE <<trim(lines[1])>> \o TrimEach(Tail(lines))

\* usernames.join(", ")
RECURSIVE JoinUsernames(_)
JoinUsernames(usernames) ==
    IF Len(usernames) = 0 THEN <<>>
    ELSE IF Len(usernames) = 1 THEN usernames[1]
    ELSE usernames[1] \o <<", ">> \o JoinUsernames(Tail(usernames))

\* What logger.warn records.
WarnEntry(message) == [level |-> "warn", message |-> message]

\* The warning of parseCoderUsersListOutput (src/src/index.ts lines 237-241).
MultipleUsernamesWarning(gh, usernames) ==
    <<"Multiple Coder usernames found for GitHub user ", gh, ": ">>
        \o JoinUsernames(usernames) \o <<". Using the first one.">>

\* The parser's message with the direct-API transport's text and link.
NoMappingMessage_withLink(gh) == NoMatchMessage(gh, CoderUrl)

\* The message of the parser's UserFacingError (src/src/index.ts lines 231-233).
NoMappingMessage(gh) ==
    <<"No Coder username mapping found for GitHub user @", gh>>

\* parseCoderUsersListOutput (src/src/index.ts lines 227-247): what the call
\* gives the logger, and what it returns or throws.
parseCoderUsersListOutputResult(gh, text) ==
    LET lines == split(trim(text))
    IN IF Len(lines) < 2
       THEN IF Falsy(gh)
            THEN [warns |-> <<>>, threw |-> TRUE, kind |-> "AssertionError",
                  message |-> <<"GitHub username is required">>, username |-> <<>>]
            ELSE [warns |-> <<>>, threw |-> TRUE, kind |-> "UserFacingError",
                  message |-> NoMappingMessage(gh), username |-> <<>>]
       ELSE LET warns == IF Len(lines) > 2
                         THEN <<WarnEntry(MultipleUsernamesWarning(gh, TrimEach(Tail(lines))))>>
                         ELSE <<>>
                name == trim(lines[2])
            IN IF name = <<>>
               THEN [warns |-> warns, threw |-> TRUE, kind |-> "AssertionError",
                     message |-> <<"Coder username not found in output">>, username |-> <<>>]
               ELSE [warns |-> warns, threw |-> FALSE, kind |-> "none",
                     message |-> <<>>, username |-> name]

\* The data rows the coder command can print: row k names the k-th user of
\* UserPool, bare or padded, or is blank.
RowKinds == {"bare", "padded", "blank", "empty"}

RowText(kind, k) ==
    IF kind = "bare" THEN <<UserPool[k]>>
    ELSE IF kind = "padded" THEN <<" ", UserPool[k], " ", "\t">>
    ELSE IF kind = "blank" THEN <<" ", " ">>
    ELSE <<>>

\* The table's text: the header, then one line per row.
RECURSIVE RowsText(_, _)
RowsText(kinds, k) ==
    IF k > Len(kinds) THEN <<>>
    ELSE <<"\n">> \o RowText(kinds[k], k) \o RowsText(kinds, k + 1)

TableText(kinds, padded, newline) ==
    (IF padded THEN <<" ", "USERNAME">> ELSE <<"USERNAME">>)
        \o RowsText(kinds, 1)
        \o (IF newline THEN <<"\n">> ELSE <<>>)

Tables ==
    {TableText(kinds, padded, newline) :
        kinds \in UNION {[1..n -> RowKinds] : n \in 0..MaxRows},
        padded \in BOOLEAN, newline \in BOOLEAN}

\* The variables of the direct-API action that the CLI transport leaves alone.
directVars == <<wf, env, input, pc, coderUsername, workspaceUrl, commentBody,
                parameters, comment, calls, workspaces, githubEnv, exitCode,
                cancelled, outputs, failureStep, users>>

\* A call of parseCoderUsersListOutput on a table.
parseCoderUsersListOutput ==
    /\ legacyPc = "idle"
    /\ \E text \in Tables :
        LET r == parseCoderUsersListOutputResult(legacyGithubUsername, text)
        IN /\ output' = text
           /\ logs' = logs \o r.warns
           /\ IF r.threw
              THEN /\ error' = [kind |-> r.kind, message |-> r.message]
                   /\ legacyPc' = "thrown"
                   /\ UNCHANGED legacyUsername
              ELSE /\ legacyUsername' = r.username
                   /\ legacyPc' = "returned"
                   /\ UNCHANGED error
    /\ UNCHANGED <<legacyGithubUsername, execCalls>>
    /\ UNCHANGED directVars

\* strings.join("REDACTED")
RECURSIVE JoinRedacted(_)
JoinRedacted(strings) ==
    IF Len(strings) = 0 THEN <<>>
    ELSE IF Len(strings) = 1 THEN <<strings[1]>>
    ELSE <<strings[1], "REDACTED">> \o JoinRedacted(Tail(strings))

\* The message of exec's error (src/src/index.ts lines 211-213 and 216-218).
ExecErrorMessage(strings) ==
    <<"Failed to execute command: ">> \o JoinRedacted(strings)

\* What the shell can do with a command: it ends with status 0 or with
\* another status, or it cannot be run.
ExecOutcomes == {"exit0", "exitNonZero", "cannotRun"}

\* What a command can print.
Stdouts == {<<"USERNAME", "\n", "hugo", "\n">>, <<"Created workspace", "\n">>}

\* The command a template literal stands for: its strings with args, each a
\* string, between them.
RECURSIVE Command(_, _)
Command(strings, args) ==
    IF Len(strings) = 0 THEN <<>>
    ELSE IF Len(args) = 0 THEN <<strings[1]>>
    ELSE <<strings[1]>> \o args[1] \o Command(Tail(strings), Tail(args))

\* exec whose error names the command that failed, arguments included.
exec_namesCommand(strings, args) ==
    /\ \E outcome \in ExecOutcomes, stdout \in Stdouts :
        execCalls' = Append(execCalls,
            [strings |-> strings, args |-> args, command |-> Command(strings, args),
             outcome |-> outcome,
             stdout |-> IF outcome = "cannotRun" THEN <<>> ELSE stdout,
             threw |-> outcome # "exit0",
             value |-> IF outcome = "exit0" THEN stdout
                       ELSE <<"Failed to execute command: ">> \o Command(strings, args)])
    /\ legacyPc' = "exec"
    /\ UNCHANGED <<legacyGithubUsername, output, legacyUsername, logs, error>>
    /\ UNCHANGED directVars

\* exec (src/src/index.ts lines 199-220): runs the command and gives back its
\* output, or throws.
exec(strings, args) ==
    /\ \E outcome \in ExecOutcomes, stdout \in Stdouts :
        execCalls' = Append(execCalls,
            [strings |-> strings, args |-> args, command |-> Command(strings, args),
             outcome |-> outcome,
             stdout |-> IF outcome = "cannotRun" THEN <<>> ELSE stdout,
             threw |-> outcome # "exit0",
             value |-> IF outcome = "exit0" THEN stdout
                       ELSE ExecErrorMessage(strings)])
    /\ legacyPc' = "exec"
    /\ UNCHANGED <<legacyGithubUsername, output, legacyUsername, logs, error>>
    /\ UNCHANGED directVars

\* The GitHub user ids given to coderUsersList.
GithubUserIds == {"57951", "83242"}

\* coderUsersList (src/src/index.ts lines 249-255).
coderUsersList ==
    /\ legacyPc \in {"idle", "exec"}
    /\ Len(execCalls) < MaxExecCalls
    /\ \E githubUserId \in GithubUserIds :
        exec(<<"coder users list --github-user-id ", " --column username">>,
             <<<<githubUserId>>>>)

\* The arguments given to coderStartWorkspace.
ParametersFilePaths == {"/tmp/coder-parameters-a.yml", "/tmp/coder-parameters-b.yml"}

\* coderStartWorkspace (src/src/index.ts lines 264-281).
coderStartWorkspace ==
    /\ legacyPc \in {"idle", "exec"}
    /\ Len(execCalls) < MaxExecCalls
    /\ \E owner \in {"hugo", "alice"}, parametersFilePath \in ParametersFilePaths :
        exec(<<"bash -c \"yes '' || true\" | coder create --yes --template ", " ",
               " --rich-parameter-file ", "">>,
             <<<<TemplateName>>, <<owner, "/", WorkspaceName>>, <<parametersFilePath>>>>)

InitLegacy ==
    /\ wf = "Done"
    /\ env = [GITHUB_USERNAME |-> Undef, CODER_USERNAME |-> Undef,
              WORKSPACE_PARAMETERS |-> ValidBlob, GITHUB_ENV |-> Undef]
    /\ input = NoInput
    /\ pc = "notStarted"
    /\ coderUsername = ""
    /\ workspaceUrl = <<>>
    /\ commentBody = <<>>
    /\ parameters = {}
    /\ comment = [exists |-> FALSE, id |-> 0, body |-> <<>>]
    /\ calls = <<>>
    /\ workspaces = <<>>
    /\ error = NoError
    /\ githubEnv = [set |-> FALSE, ERROR_MSG |-> <<>>]
    /\ exitCode = -1
    /\ cancelled = FALSE
    /\ outputs = [comment_id |-> 0]
    /\ failureStep = "notRun"
    /\ users = <<>>
    /\ logs = <<>>
    /\ legacyGithubUsername \in LegacyGithubUsernames
    /\ output = <<>>
    /\ legacyUsername = <<>>
    /\ legacyPc = "idle"
    /\ execCalls = <<>>

NextLegacy ==
    \/ parseCoderUsersListOutput
    \/ coderUsersList
    \/ coderStartWorkspace

SpecLegacy == InitLegacy /\ [][NextLegacy]_vars


(***************************************************************************)
(* Properties of the CLI transport.                                        *)
(***************************************************************************)
\* The parser has been called and has returned or thrown.
Parsed == legacyPc \in {"returned", "thrown"}

\* The lines of the table after its header line, as the table was given.
DataRows == Tail(split(trim(output)))

\* Row i of the table is blank: it holds nothing but white space.
BlankRow(i) == \A j \in 1..Len(DataRows[i]) : DataRows[i][j] \in WhiteSpace

\* Every data row of the table names a user.
NamedRows == \A i \in 1..Len(DataRows) : ~BlankRow(i)

\* The names of the first n users, separated by ", ".
FirstNames(n) == JoinComma(SubSeq(UserPool, 1, n))

\* C21: given a table whose data rows all name a user, the parser returns
\* the first row's name without its padding; with more than one data row it
\* has logged exactly one warning, which lists every row's name without
\* padding in the table's order, and with exactly one data row it has logged
\* nothing.
C21_FirstRowAndOneWarning ==
    (Parsed /\ Len(DataRows) >= 1 /\ NamedRows) =>
        /\ legacyPc = "returned"
        /\ legacyUsername = <<UserPool[1]>>
        /\ logs = IF Len(DataRows) > 1
                  THEN <<[level |-> "warn",
                          message |-> <<"Multiple Coder usernames found for GitHub user ",
                                        legacyGithubUsername, ": ">>
                                      \o FirstNames(Len(DataRows))
                                      \o <<". Using the first one.">>]>>
                  ELSE <<>>

\* Three padded rows have been parsed: the first name is returned and one
\* warning is logged.
C21_Witness ==
    /\ legacyPc = "returned"
    /\ Len(DataRows) = 3
    /\ NamedRows
    /\ \A i \in 1..3 : Len(DataRows[i]) > 1
    /\ legacyUsername = <<"hugo">>
    /\ Len(logs) = 1


C23_BlankRowFails ==
    (Parsed /\ \E i \in 1..Len(DataRows) : BlankRow(i)) =>
        /\ legacyPc = "thrown"
        /\ error.kind = "AssertionError"


\* C29: when the parser throws, with the no-mapping error or with the
\* assertion error of a blank first data row, it has given nothing to the
\* logger.
C29_SilentFailure ==
    legacyPc = "thrown" => logs = <<>>


(***************************************************************************)
(* Properties of the direct-API transport, continued.                      *)
(***************************************************************************)
\* The Coder API answered a call of the provisioner with a status that is
\* not a success.
RefusedResponse ==
    /\ ProvisionerFailed
    /\ error.message[1] \in {"Failed to get Coder user, status code: ",
                             "Failed to get Coder templates, status code: ",
                             "Failed to create Coder workspace, status code: "}

\* C24: a failure of the provisioner (a response that is not a success to
\* the user-id lookup, the template lookup or the creation call, or no
\* template of the exact name) is not a UserFacingError, and the message of
\* every response that is not a success holds the response's status and its
\* body.
C24_StatusAndBody ==
    ProvisionerFailed =>
        /\ error.kind # "UserFacingError"
        /\ RefusedResponse =>
            /\ Len(error.message) = 4
            /\ error.message[2] \in {"400", "404", "500"}
            /\ error.message[3] = ", body: "
            /\ error.message[4] = "error"


\* A lookup of the provisioner failed: the user-id lookup, or the template
\* lookup (a response that is not a success, or no template of the name).
LookupFailed ==
    \E i \in 1..Len(calls) :
        /\ calls[i].op \in {"coder.getUserID", "coder.getTemplateInfo"}
        /\ calls[i].outcome = "threw"

\* C25: the creation call is made only after the user-id lookup and then the
\* template lookup have succeeded; when a lookup failed no creation call is
\* made and no workspace exists, although the pre-update has been written
\* to the comment.
C25_CreationAfterLookups ==
    /\ \A i \in CallsOf("coder.createWorkspace") :
        \E j \in 1..(i - 1), k \in 1..(i - 1) :
            /\ j < k
            /\ calls[j].op = "coder.getUserID" /\ calls[j].outcome = "ok"
            /\ calls[k].op = "coder.getTemplateInfo" /\ calls[k].outcome = "ok"
    /\ LookupFailed =>
        /\ CallsOf("coder.createWorkspace") = {}
        /\ workspaces = <<>>
        /\ \E i \in 1..Len(calls) :
            IsFirstWrite(i) /\ IsPreUpdateWrite(calls[i]) /\ calls[i].outcome = "ok"

\* No template has the name: the run failed after the pre-update and both
\* calls before the creation, which was not made.
C25_Witness ==
    /\ pc = "thrown"
    /\ error.message = <<"Template with name ", TemplateName, " not found">>
    /\ LastCall.op = "coder.getTemplateInfo"
    /\ CallsOf("coder.getUserID") # {}
    /\ CallsOf("coder.createWorkspace") = {}
    /\ \E i \in 1..Len(calls) : IsFirstWrite(i) /\ calls[i].outcome = "ok"


\* execute() was given a GitHub username only, and a parameter blob that is
\* malformed, and has thrown.
FailedWithMalformedBlob ==
    /\ pc = "thrown"
    /\ ~Falsy(input.githubUsername)
    /\ Falsy(input.coderUsername)
    /\ input.workspaceParameters \in MalformedBlobs

\* C26: given a GitHub username, the identity is resolved before the
\* parameter blob is parsed: a run with a malformed blob fails only after
\* the resolution was called, and with the mapping error when the user has
\* no mapping.
C26_ResolutionBeforeParsing ==
    FailedWithMalformedBlob =>
        /\ CallsOf("github.users.getByUsername") # {}
        /\ (NoMatch => error.kind = "UserFacingError")

\* C26 as amended: given a GitHub username, the parameter blob is parsed
\* before the identity is resolved: every call of the resolution follows a
\* successful parse, and a run with a malformed blob fails with the parse
\* error without a call of the resolution, whether the user has a mapping
\* or not.
C26_ParsingBeforeResolution ==
    /\ (ExecuteStarted /\ \E i \in 1..Len(calls) : calls[i].op \in ResolutionOps) =>
        /\ input.workspaceParameters \notin MalformedBlobs
        /\ parameters = parseParameters(input.workspaceParameters)
    /\ FailedWithMalformedBlob =>
        /\ error.kind \in ParseErrors
        /\ \A i \in 1..Len(calls) : calls[i].op \notin ResolutionOps
        /\ users = <<>>

\* A run for github-user with a blob that is not YAML has failed with the
\* parse error, and no call was made.
C26_Witness ==
    /\ FailedWithMalformedBlob
    /\ input.githubUsername = "github-user"
    /\ input.workspaceParameters = InvalidBlob
    /\ error.kind = "YAMLParseError"
    /\ calls = <<>>


\* The link to the page where a GitHub account is connected with Coder.
ExternalAuthLink == <<input.coderUrl, "/settings/external-auth">>

\* C27: when the user search returns no user, or more than one, execute()
\* throws a UserFacingError whose message names the external-auth page.
C27_BothMessagesNameLink ==
    (NoMatch \/ SeveralMatches) =>
        /\ pc = "thrown"
        /\ error.kind = "UserFacingError"
        /\ Contains(error.message, ExternalAuthLink)

\* C27 as amended: when the user search returns no user, or more than one,
\* execute() throws a UserFacingError; the message names the external-auth
\* page exactly when no user was returned, and with more than one user it
\* asks instead to connect the other users to other GitHub accounts.
C27_OnlyNoMatchNamesLink ==
    (NoMatch \/ SeveralMatches) =>
        /\ pc = "thrown"
        /\ error.kind = "UserFacingError"
        /\ Contains(error.message, ExternalAuthLink) <=> NoMatch
        /\ SeveralMatches =>
            error.message[Len(error.message)] =
                ". Please connect other users to other GitHub accounts and try again."

\* The search returned two users: the run failed with a message that does
\* not name the external-auth page.
C27_Witness ==
    /\ SeveralMatches
    /\ Len(users) = 2
    /\ pc = "thrown"
    /\ error.kind = "UserFacingError"
    /\ ~Contains(error.message, ExternalAuthLink)


(***************************************************************************)
(* Properties of the CLI transport, continued.                             *)
(***************************************************************************)
\* The strings of the arguments given to the command of call c.
ArgumentTokens(c) ==
    UNION {{c.args[a][t] : t \in 1..Len(c.args[a])} : a \in 1..Len(c.args)}

\* The message is "Failed to execute command: " and then the template's
\* strings with REDACTED between them.
IsRedactedMessage(message, strings) ==
    /\ Len(message) = 2 * Len(strings)
    /\ message[1] = "Failed to execute command: "
    /\ \A k \in 1..Len(strings) : message[2 * k] = strings[k]
    /\ \A k \in 1..(Len(strings) - 1) : message[2 * k + 1] = "REDACTED"

\* C28: a command that ends with status 0 gives exec its output to return;
\* a command that ends with another status or cannot be run makes exec
\* throw the message built from the template's strings and REDACTED alone.
\* No argument is in the message, and two failed calls of one template have
\* the same message whatever their arguments.
C28_ExecRedactsArguments ==
    /\ \A i \in 1..Len(execCalls) :
        LET c == execCalls[i]
        IN IF c.outcome = "exit0"
           THEN ~c.threw /\ c.value = c.stdout
           ELSE /\ c.threw
                /\ IsRedactedMessage(c.value, c.strings)
                /\ \A k \in 1..Len(c.value) : c.value[k] \notin ArgumentTokens(c)
    /\ \A i, j \in 1..Len(execCalls) :
        (execCalls[i].threw /\ execCalls[j].threw
         /\ execCalls[i].strings = execCalls[j].strings) =>
            execCalls[i].value = execCalls[j].value

\* Two calls of one template with different arguments have failed, one by
\* its status and one because the command could not be run.
C28_Witness ==
    /\ Len(execCalls) = 2
    /\ execCalls[1].strings = execCalls[2].strings
    /\ execCalls[1].args # execCalls[2].args
    /\ execCalls[1].outcome = "exitNonZero"
    /\ execCalls[2].outcome = "cannotRun"
    /\ execCalls[1].value = execCalls[2].value


(***************************************************************************)
(* Properties of the action's inputs.                                      *)
(***************************************************************************)
\* The workflow gave the action one of github-username and coder-username
\* and left the other out: action.yml passes the one left out as the empty
\* string.  The parameters are given.
OneUsernameGiven ==
    /\ \/ env.GITHUB_USERNAME = "github-user" /\ env.CODER_USERNAME = ""
       \/ env.GITHUB_USERNAME = "" /\ env.CODER_USERNAME = "hugo-coder"
    /\ env.WORKSPACE_PARAMETERS # EmptyBlob

\* main() has read and validated the environment.
Validated == wf # "InitialComment" /\ (pc # "notStarted" \/ error # NoError)

\* C30: when the workflow gives exactly one of the two usernames, the
\* validation accepts the environment and execute() is called with the other
\* username unset.
C30_OneUsernameAccepted ==
    (OneUsernameGiven /\ Validated) =>
        /\ ExecuteStarted
        /\ error.kind # "ZodError"
        /\ Falsy(input.githubUsername) # Falsy(input.coderUsername)

====
